---- MODULE Spec2Model ----
(***************************************************************************)
(* Trip Dispatch & Tracking Engine of shikadriver: the request handlers of *)
(* backend/src/routes/trips.js run against the Record Store (PostgreSQL,   *)
(* READ COMMITTED).  Every `await db.query(...)` of a handler is one       *)
(* atomic statement of the store; handlers interleave between statements.  *)
(* The accept handler runs its statements in one transaction: its writes   *)
(* stay private, and the rows it wrote stay locked, until COMMIT/ROLLBACK. *)
(* The store and the Notification Gateway do not fail in Spec.             *)
(***************************************************************************)
EXTENDS Integers, FiniteSets, Sequences, TLC

\* ---------------------------------------------------------------- bounds
MaxTrips == 1
MaxDrivers == 2
MaxInFlight == 2
MaxCalls == 3
MaxFleet == 21
MaxMoving == 1

\* ------------------------------------------------------------- constants
NULL == -1

Clients == {0}
Drivers == 1..MaxDrivers
Users == Clients \cup Drivers
TripIds == 1..MaxTrips
Procs == 1..MaxInFlight

Statuses ==
  {"pending", "accepted", "driver_arriving", "in_progress", "completed",
   "cancelled_by_client", "cancelled_by_driver"}

validStatuses ==
  {"driver_arriving", "in_progress", "completed", "cancelled_by_client",
   "cancelled_by_driver"}

\* status.includes('cancelled')
includesCancelled(s) == s \in {"cancelled_by_client", "cancelled_by_driver"}

\* status === 'completed' || status.includes('cancelled')
releasesDriver(s) == s = "completed" \/ includesCancelled(s)

VARIABLES
  trips,          \* table trips: trip id -> row
  drivers,        \* table driver_profiles: driver id -> row
  calls,          \* the handler invocation each worker is inside, Idle if none
  ncalls,         \* number of requests received so far (the logical clock)
  response,       \* the HTTP response sent by the last step, NoResponse if none
  notifications,  \* notifyDriver / notifyClient calls made by the last step
  events,         \* socket.io emits made by the last step
  trip_locations, \* rows the last step inserted into trip_locations
  audit_logs,     \* rows the last step inserted into audit_logs
  winners,        \* history: per trip, the drivers whose accept committed
  found,          \* the last findNearbyDrivers query and the rows it returned
  estimate        \* the last calculatePrice call: its arguments and its result

\* The tables trip_locations and audit_logs are written but never read by a
\* handler, so like the notifications they are kept as the output of a step.
vars ==
  <<trips, drivers, calls, ncalls, response, notifications, events,
    trip_locations, audit_logs, winners, found, estimate>>

\* ------------------------------------------------------------ the store
Exists(t) == t \in DOMAIN trips

\* { latitude, longitude } of a request body, in thousandths of a degree;
\* a property the body does not have is NULL
Location(lat, lon) == [latitude |-> lat, longitude |-> lon]

\* a place in Nairobi
Home == Location(-1300, 36800)

\* the INSERT of the request handler names no final_price: the column of the
\* new row is NULL
NewTrip(c, pickup, dropoff) ==
  [client_id |-> c, driver_id |-> NULL, status |-> "pending",
   pickup_location |-> pickup, dropoff_location |-> dropoff,
   accepted_at |-> NULL, started_at |-> NULL, completed_at |-> NULL,
   cancelled_at |-> NULL, final_price |-> NULL,
   sos_triggered |-> FALSE, sos_triggered_at |-> NULL]

\* C1 mutant: the UPDATE of accept takes no row lock (check, then write)
TripLocked_NoRowLock(t) == FALSE

\* A transaction of the accept handler holds the lock of the trip row from
\* its UPDATE trips until COMMIT, and the lock of the driver row from its
\* UPDATE driver_profiles until COMMIT.
TripLocked(t) ==
  \E k \in Procs :
    /\ calls[k].op = "accept"
    /\ calls[k].trip = t
    /\ calls[k].pc \in {"driver", "commit"}

DriverLocked(d) ==
  \E k \in Procs :
    /\ calls[k].op = "accept"
    /\ calls[k].user = d
    /\ calls[k].pc = "commit"

\* CURRENT_TIMESTAMP: logical time is the number of requests received
CURRENT_TIMESTAMP == ncalls

\* ------------------------------------------------------------ the calls
Call(op, u, t, s, pc) ==
  [op |-> op, user |-> u, trip |-> t, status |-> s, pc |-> pc,
   driver_id |-> NULL, current_status |-> "none"]

Idle == Call("idle", NULL, 0, "none", "idle")

Response(op, u, t, s, code) ==
  [op |-> op, user |-> u, trip |-> t, status |-> s, code |-> code]

NoResponse == Response("none", NULL, 0, "none", 0)

\* a new request is served by the first worker that is not inside a handler
CanStart(p) ==
  /\ ncalls < MaxCalls
  /\ calls[p] = Idle
  /\ \A q \in Procs : q < p => calls[q] # Idle

\* the request enters its handler, which goes on after the first statement
Start(p, call) ==
  /\ calls' = [calls EXCEPT ![p] = call]
  /\ ncalls' = ncalls + 1
  /\ response' = NoResponse

\* the first statement of the handler already decides the response
Reject(op, u, t, s, code) ==
  /\ calls' = calls
  /\ ncalls' = ncalls + 1
  /\ response' = Response(op, u, t, s, code)

Goto(k, pc) ==
  /\ calls' = [calls EXCEPT ![k].pc = pc]
  /\ response' = NoResponse
  /\ UNCHANGED ncalls

Finish(k, code) ==
  /\ calls' = [calls EXCEPT ![k] = Idle]
  /\ response' =
       Response(calls[k].op, calls[k].user, calls[k].trip, calls[k].status, code)
  /\ UNCHANGED ncalls

At(k, op, pc) == calls[k].op = op /\ calls[k].pc = pc

\* what a step that emits nothing leaves in the outputs
NoNotifications == notifications' = {}
NoEvents == events' = <<>> /\ trip_locations' = <<>>
NoAudit == audit_logs' = {}

\* no query was made yet
NoQuery == [point |-> 0, radiusKm |-> 0, rows |-> <<>>]

\* the row of pricing_config that the column defaults make: money in KES,
\* multipliers in hundredths (DECIMAL(3,2))
defaultConfig ==
  [base_price |-> 300, price_per_km |-> 50, night_multiplier |-> 150,
   weekend_multiplier |-> 120, minimum_price |-> 400]

\* no price was calculated yet
NoEstimate ==
  [distanceKm |-> 0, hour |-> 0, day |-> 0, config |-> defaultConfig,
   price |-> NULL]

\* a row of driver_profiles of a driver who has not reported a position yet
Approved(available) ==
  [approval_status |-> "approved", is_available |-> available,
   current_location |-> NULL, last_location_update |-> NULL]

Init ==
  /\ trips = <<>>
  /\ drivers = [d \in Drivers |-> Approved(TRUE)]
  /\ calls = [p \in Procs |-> Idle]
  /\ ncalls = 0
  /\ response = NoResponse
  /\ notifications = {}
  /\ events = <<>>
  /\ trip_locations = <<>>
  /\ audit_logs = {}
  /\ winners = [t \in TripIds |-> <<>>]
  /\ found = NoQuery
  /\ estimate = NoEstimate

\* ------------------------------------------------ POST /trips/request
\* WHERE dp.is_available = true AND dp.approval_status = 'approved' AND ...
\* (the position and freshness conditions of the query are left open here:
\* any subset of these drivers may be the one found nearby)
Candidates ==
  {d \in Drivers :
     drivers[d].is_available /\ drivers[d].approval_status = "approved"}

\* !value of JavaScript: undefined, null and 0 are falsy
falsy(value) == value = NULL \/ value = 0

\* if (!pickup_location?.latitude || !pickup_location?.longitude ||
\*     !dropoff_location?.latitude || !dropoff_location?.longitude) -> 400
invalidLocations(pickup, dropoff) ==
  \/ falsy(pickup.latitude) \/ falsy(pickup.longitude)
  \/ falsy(dropoff.latitude) \/ falsy(dropoff.longitude)

\* validateCoordinates of utils/location.js, which no handler calls
validateCoordinates(latitude, longitude) ==
  /\ latitude # NULL /\ longitude # NULL
  /\ latitude >= -90000 /\ latitude <= 90000
  /\ longitude >= -180000 /\ longitude <= 180000

\* isWithinServiceArea of utils/location.js, which no handler calls: the
\* bounds of Nairobi, south -1.444, north -1.163, west 36.651, east 37.103
isWithinServiceArea(latitude, longitude) ==
  /\ latitude # NULL /\ longitude # NULL
  /\ latitude >= -1444 /\ latitude <= -1163
  /\ longitude >= 36651 /\ longitude <= 37103

\* the objects findNearbyDrivers returns for the drivers it found:
\* result.rows.map(driver => ({ id: driver.user_id, distance_km: ..., ... }))
nearbyDrivers(nearby) == {[id |-> d] : d \in nearby}

\* obj.key of JavaScript: a property the object does not have is undefined
property(obj, key) == IF key \in DOMAIN obj THEN obj[key] ELSE NULL

\* nearbyDrivers.forEach(driver =>
\*   notifyDriver(driver.user_id, 'new_trip_request', { trip_id, ... }))
\* one call for each object; row tells the calls apart and is not sent
notifyNearby(nearby, trip_id) ==
  {[to |-> property(driver, "user_id"), event |-> "new_trip_request",
    trip_id |-> trip_id, status |-> "pending", driver_id |-> NULL,
    row |-> driver.id] : driver \in nearbyDrivers(nearby)}

\* Validate locations; INSERT INTO trips (...) VALUES (..., 'pending');
\* findNearbyDrivers; notifyDriver(driver, 'new_trip_request') for each;
\* INSERT INTO audit_logs.  The INSERT makes the points with ST_MakePoint:
\* what the store does with a point off the globe is its own choice, it
\* stores the row (stored) or raises an error, which the handler answers 500.
RequestTrip(c, pickup, dropoff, nearby, stored) ==
  /\ Len(trips) < MaxTrips
  /\ IF invalidLocations(pickup, dropoff)
       THEN /\ nearby = {} /\ stored
            /\ response' = Response("request", c, 0, "none", 400)
            /\ UNCHANGED trips
            /\ NoNotifications /\ NoAudit
       ELSE IF ~stored
       THEN /\ nearby = {}
            /\ \/ ~validateCoordinates(pickup.latitude, pickup.longitude)
               \/ ~validateCoordinates(dropoff.latitude, dropoff.longitude)
            /\ response' = Response("request", c, 0, "none", 500)
            /\ UNCHANGED trips
            /\ NoNotifications /\ NoAudit
       ELSE /\ nearby \subseteq Candidates
            /\ trips' = Append(trips, NewTrip(c, pickup, dropoff))
            /\ notifications' = notifyNearby(nearby, Len(trips) + 1)
            /\ audit_logs' =
                 {[user_id |-> c, action |-> "trip_requested",
                   entity_id |-> Len(trips) + 1]}
            /\ response' = Response("request", c, Len(trips) + 1, "pending", 200)
  /\ NoEvents
  /\ UNCHANGED <<drivers, calls, ncalls, winners, found, estimate>>

\* ------------------------------------------ POST /trips/:trip_id/accept
\* C38 mutant: the approval of the driver is not looked at
driverCheck_AnyApproval(d) ==
  d \in DOMAIN drivers /\ drivers[d].is_available

\* Check if driver is approved and available
driverCheck(d) ==
  /\ d \in DOMAIN drivers
  /\ drivers[d].approval_status = "approved"
  /\ drivers[d].is_available

\* BEGIN; SELECT approval_status, is_available FROM driver_profiles;
\* not approved or not available: ROLLBACK and 403
AcceptCheck(p, d, t) ==
  /\ CanStart(p)
  /\ IF driverCheck(d)
       THEN Start(p, Call("accept", d, t, "accepted", "update"))
       ELSE Reject("accept", d, t, "accepted", 403)
  /\ NoNotifications /\ NoEvents /\ NoAudit
  /\ UNCHANGED <<trips, drivers, winners, found, estimate>>

\* C6, C7 mutant: a trip its driver cancelled is offered again
StillPending_OrDriverCancelled(t) ==
  /\ t \in DOMAIN trips
  /\ trips[t].status \in {"pending", "cancelled_by_driver"}

\* WHERE id = $2 AND status = 'pending'
StillPending(t) == Exists(t) /\ trips[t].status = "pending"

\* UPDATE trips SET driver_id, status = 'accepted' WHERE id AND status = 'pending'
\* waits for the lock of the row, then evaluates its WHERE on the committed
\* row; no row updated: ROLLBACK and 409.
AcceptUpdate(k) ==
  /\ At(k, "accept", "update")
  /\ ~TripLocked(calls[k].trip)
  /\ IF StillPending(calls[k].trip)
       THEN Goto(k, "driver")
       ELSE Finish(k, 409)
  /\ NoNotifications /\ NoEvents /\ NoAudit
  /\ UNCHANGED <<trips, drivers, winners, found, estimate>>

\* UPDATE driver_profiles SET is_available = false (inside the transaction)
AcceptMarkUnavailable(k) ==
  /\ At(k, "accept", "driver")
  /\ ~DriverLocked(calls[k].user)
  /\ Goto(k, "commit")
  /\ NoNotifications /\ NoEvents /\ NoAudit
  /\ UNCHANGED <<trips, drivers, winners, found, estimate>>

\* C9 mutant: the statement that marks the driver unavailable is missing
MarkUnavailable_Missing(row) == row

\* UPDATE driver_profiles SET is_available = false
MarkUnavailable(row) == [row EXCEPT !.is_available = FALSE]

\* C36 mutant: the UPDATE of accept sets the status and not the driver
AcceptedRow_NoDriver(row, d, now) ==
  [row EXCEPT !.status = "accepted", !.accepted_at = now]

\* the row of the trip as the transaction of accept wrote it
AcceptedRow(row, d, now) ==
  [row EXCEPT !.driver_id = d, !.status = "accepted", !.accepted_at = now]

\* SELECT client details; COMMIT; notifyClient(trip.client_id, 'trip_accepted')
AcceptCommit(k) ==
  /\ At(k, "accept", "commit")
  /\ trips' = [trips EXCEPT
       ![calls[k].trip] = AcceptedRow(@, calls[k].user, CURRENT_TIMESTAMP)]
  /\ drivers' = [drivers EXCEPT ![calls[k].user] = MarkUnavailable(@)]
  /\ notifications' =
       {[to |-> trips[calls[k].trip].client_id, event |-> "trip_accepted",
         trip_id |-> calls[k].trip, status |-> "accepted",
         driver_id |-> calls[k].user]}
  /\ winners' = [winners EXCEPT ![calls[k].trip] = Append(@, calls[k].user)]
  /\ Goto(k, "audit")
  /\ NoEvents /\ NoAudit
  /\ UNCHANGED <<found, estimate>>

\* INSERT INTO audit_logs ... 'trip_accepted'; res.json({success: true})
AcceptAudit(k) ==
  /\ At(k, "accept", "audit")
  /\ audit_logs' =
       {[user_id |-> calls[k].user, action |-> "trip_accepted",
         entity_id |-> calls[k].trip]}
  /\ Finish(k, 200)
  /\ NoNotifications /\ NoEvents
  /\ UNCHANGED <<trips, drivers, winners, found, estimate>>

\* ----------------------------------------- PATCH /trips/:trip_id/status
\* C10 mutant: while no driver is bound, any caller passes the check
isParticipant_OrUnbound(row, u) ==
  row.client_id = u \/ row.driver_id = u \/ row.driver_id = NULL

\* if (trip.client_id !== user_id && trip.driver_id !== user_id) -> 403
isParticipant(row, u) == row.client_id = u \/ row.driver_id = u

\* the response of the checks made before the status is written, 0 if none
StatusCheckCode(u, t, s) ==
  IF s \notin validStatuses THEN 400
  ELSE IF ~Exists(t) THEN 404
  ELSE IF ~isParticipant(trips[t], u) THEN 403
  ELSE 0

\* validStatuses check; SELECT client_id, driver_id, status as current_status
\* FROM trips: the handler keeps the row it read
SetStatusCheck(p, u, t, s) ==
  /\ CanStart(p)
  /\ IF StatusCheckCode(u, t, s) # 0
       THEN Reject("setStatus", u, t, s, StatusCheckCode(u, t, s))
       ELSE Start(p, [Call("setStatus", u, t, s, "update")
                        EXCEPT !.driver_id = trips[t].driver_id,
                               !.current_status = trips[t].status])
  /\ NoNotifications /\ NoEvents /\ NoAudit
  /\ UNCHANGED <<trips, drivers, winners, found, estimate>>

\* const notifyUserId = user_id === trip.client_id ? trip.driver_id : trip.client_id
notifyUserId(k) ==
  IF calls[k].user = trips[calls[k].trip].client_id
    THEN calls[k].driver_id
    ELSE trips[calls[k].trip].client_id

\* if (notifyUserId) notifyDriver(notifyUserId, 'trip_status_change', ...)
StatusNotifications(k) ==
  IF notifyUserId(k) # NULL
    THEN {[to |-> notifyUserId(k), event |-> "trip_status_change",
           trip_id |-> calls[k].trip, status |-> calls[k].status,
           driver_id |-> NULL]}
    ELSE {}

\* updateFields: status plus the timestamp column that goes with it
updateFields(row, s, now) ==
  IF s = "in_progress"
    THEN [row EXCEPT !.status = s, !.started_at = now]
  ELSE IF s = "completed"
    THEN [row EXCEPT !.status = s, !.completed_at = now]
  ELSE IF includesCancelled(s)
    THEN [row EXCEPT !.status = s, !.cancelled_at = now]
  ELSE [row EXCEPT !.status = s]

\* UPDATE trips SET status = ..., updated_at = ... WHERE id = $1
SetStatusUpdate(k) ==
  /\ At(k, "setStatus", "update")
  /\ ~TripLocked(calls[k].trip)
  /\ trips' = [trips EXCEPT
       ![calls[k].trip] = updateFields(@, calls[k].status, CURRENT_TIMESTAMP)]
  /\ IF releasesDriver(calls[k].status)
       THEN /\ Goto(k, "restore")
            /\ NoNotifications
       ELSE /\ Goto(k, "audit")
            /\ notifications' = StatusNotifications(k)
  /\ NoEvents /\ NoAudit
  /\ UNCHANGED <<drivers, winners, found, estimate>>

\* UPDATE driver_profiles SET is_available = true WHERE user_id = trip.driver_id
\* with the driver_id that the authorization SELECT returned
SetStatusRestore(k) ==
  /\ At(k, "setStatus", "restore")
  /\ IF calls[k].driver_id \in DOMAIN drivers
       THEN /\ ~DriverLocked(calls[k].driver_id)
            /\ drivers' = [drivers EXCEPT ![calls[k].driver_id].is_available = TRUE]
       ELSE UNCHANGED drivers
  /\ notifications' = StatusNotifications(k)
  /\ Goto(k, "audit")
  /\ NoEvents /\ NoAudit
  /\ UNCHANGED <<trips, winners, found, estimate>>

\* INSERT INTO audit_logs ... 'trip_status_updated'; res.json({success: true})
SetStatusAudit(k) ==
  /\ At(k, "setStatus", "audit")
  /\ audit_logs' =
       {[user_id |-> calls[k].user, action |-> "trip_status_updated",
         entity_id |-> calls[k].trip]}
  /\ Finish(k, 200)
  /\ NoNotifications /\ NoEvents
  /\ UNCHANGED <<trips, drivers, winners, found, estimate>>

\* --------------------------------------- POST /trips/:trip_id/location
\* C15 mutant: the status of the trip is left out of the check
tripCheck_AnyStatus(d, t) ==
  t \in DOMAIN trips /\ trips[t].driver_id = d

\* SELECT id FROM trips WHERE id = $1 AND driver_id = $2 AND status = 'in_progress'
tripCheck(d, t) ==
  Exists(t) /\ trips[t].driver_id = d /\ trips[t].status = "in_progress"

\* the handler keeps the body of its request, { latitude, longitude, ... }:
\* a report is told from every other by the number of its request
LocationCall(d, t, report) ==
  [op |-> "location", user |-> d, trip |-> t, status |-> "none",
   pc |-> "store", driver_id |-> NULL, current_status |-> "none",
   report |-> report]

LocationCheck(p, d, t) ==
  /\ CanStart(p)
  /\ IF tripCheck(d, t)
       THEN Start(p, LocationCall(d, t, ncalls + 1))
       ELSE Reject("location", d, t, "none", 403)
  /\ NoNotifications /\ NoEvents /\ NoAudit
  /\ UNCHANGED <<trips, drivers, winners, found, estimate>>

\* INSERT INTO trip_locations; io.to(`trip_${trip_id}`).emit('driver_location_update')
LocationStore(k) ==
  /\ At(k, "location", "store")
  /\ trip_locations' =
       <<[trip_id |-> calls[k].trip, location |-> calls[k].report,
          recorded_at |-> CURRENT_TIMESTAMP]>>
  /\ events' =
       <<[room |-> calls[k].trip, event |-> "driver_location_update",
          location |-> calls[k].report, timestamp |-> CURRENT_TIMESTAMP]>>
  /\ Finish(k, 200)
  /\ NoNotifications /\ NoAudit
  /\ UNCHANGED <<trips, drivers, winners, found, estimate>>

\* -------------------------------------------- POST /trips/:trip_id/sos
\* UPDATE trips SET sos_triggered = true, sos_triggered_at = ... WHERE id = $1
\* C13 mutant: the flag is raised only while the trip is under way
sosApplies_OnlyInProgress(t) ==
  t \in DOMAIN trips /\ trips[t].status = "in_progress"

\* WHERE id = $1: the status of the trip is not looked at
sosApplies(t) == Exists(t)

\* C14 mutant: raising the alarm also cancels the trip
sosFields_AlsoCancels(row, now) ==
  [row EXCEPT !.sos_triggered = TRUE, !.sos_triggered_at = now,
              !.status = "cancelled_by_client", !.cancelled_at = now]

\* SET sos_triggered = true, sos_triggered_at = CURRENT_TIMESTAMP
sosFields(row, now) ==
  [row EXCEPT !.sos_triggered = TRUE, !.sos_triggered_at = now]

SOSUpdate(p, u, t) ==
  /\ CanStart(p)
  /\ ~TripLocked(t)
  /\ trips' = IF sosApplies(t)
                THEN [trips EXCEPT ![t] = sosFields(@, CURRENT_TIMESTAMP + 1)]
                ELSE trips
  /\ Start(p, Call("sos", u, t, "none", "alert"))
  /\ NoNotifications /\ NoEvents /\ NoAudit
  /\ UNCHANGED <<drivers, winners, found, estimate>>

\* SELECT trip details; io.to('admin').emit('sos_alert'); INSERT INTO audit_logs;
\* res.json({success: true})
SOSAlert(k) ==
  /\ At(k, "sos", "alert")
  /\ events' =
       <<[room |-> 0, event |-> "sos_alert", trip_id |-> calls[k].trip,
          timestamp |-> CURRENT_TIMESTAMP]>>
  /\ trip_locations' = <<>>
  /\ audit_logs' =
       {[user_id |-> calls[k].user, action |-> "sos_triggered",
         entity_id |-> calls[k].trip]}
  /\ Finish(k, 200)
  /\ NoNotifications
  /\ UNCHANGED <<trips, drivers, winners, found, estimate>>

\* ------------------------------------------------------------------ Next
Next ==
  \/ \E c \in Clients, nearby \in SUBSET Drivers :
       RequestTrip(c, Home, Home, nearby, TRUE)
  \/ \E p \in Procs, d \in Drivers, t \in TripIds : AcceptCheck(p, d, t)
  \/ \E k \in Procs : AcceptUpdate(k)
  \/ \E k \in Procs : AcceptMarkUnavailable(k)
  \/ \E k \in Procs : AcceptCommit(k)
  \/ \E k \in Procs : AcceptAudit(k)
  \/ \E p \in Procs, u \in Users, t \in TripIds, s \in Statuses :
       SetStatusCheck(p, u, t, s)
  \/ \E k \in Procs : SetStatusUpdate(k)
  \/ \E k \in Procs : SetStatusRestore(k)
  \/ \E k \in Procs : SetStatusAudit(k)
  \/ \E p \in Procs, d \in Drivers, t \in TripIds : LocationCheck(p, d, t)
  \/ \E k \in Procs : LocationStore(k)
  \/ \E p \in Procs, u \in Users, t \in TripIds : SOSUpdate(p, u, t)
  \/ \E k \in Procs : SOSAlert(k)

Spec == Init /\ [][Next]_vars

\* ------------------------------------------------ handlers run to the end
\* the statement that worker k is waiting for returns and the handler goes on
Continue(k) ==
  \/ AcceptUpdate(k) \/ AcceptMarkUnavailable(k) \/ AcceptCommit(k)
  \/ AcceptAudit(k)
  \/ SetStatusUpdate(k) \/ SetStatusRestore(k) \/ SetStatusAudit(k)
  \/ LocationStore(k)
  \/ SOSAlert(k)

\* Every handler that was entered runs to its response; whether and when a
\* client or a driver sends another request is up to them.  The router has no
\* timer and no job that runs without a request.
SpecL == Init /\ [][Next]_vars /\ \A k \in Procs : WF_vars(Continue(k))

\* ------------------------------------------- the Record Store can fail
\* A statement of the status handler throws (the store is down, the
\* connection is lost): catch (error) -> res.status(500).  The statements
\* the handler ran before are autocommitted and stay.
SetStatusFails(k) ==
  /\ calls[k].op = "setStatus"
  /\ Finish(k, 500)
  /\ NoNotifications /\ NoEvents /\ NoAudit
  /\ UNCHANGED <<trips, drivers, winners, found, estimate>>

NextF ==
  \/ Next
  \/ \E k \in Procs : SetStatusFails(k)

SpecF == Init /\ [][NextF]_vars

\* A statement of the accept handler throws: catch (error) -> ROLLBACK and
\* res.status(500).  Before COMMIT the ROLLBACK undoes the statements of the
\* transaction, whose writes no one has seen; the INSERT INTO audit_logs
\* comes after COMMIT and notifyClient, and the ROLLBACK then undoes nothing.
AcceptFails(k) ==
  /\ calls[k].op = "accept"
  /\ Finish(k, 500)
  /\ NoNotifications /\ NoEvents /\ NoAudit
  /\ UNCHANGED <<trips, drivers, winners, found, estimate>>

NextG ==
  \/ Next
  \/ \E k \in Procs : AcceptFails(k)

SpecG == Init /\ [][NextG]_vars

\* --------------------------------------------- a trip that is under way
\* The state in which client 0 requested trip 1, driver 1 accepted it and
\* setStatus moved it to in_progress, all three calls being over.  The count
\* of requests and with it the clock start again at 0 here, so that MaxCalls
\* bounds the requests received from this state on.
InitT ==
  /\ trips = <<[NewTrip(0, Home, Home) EXCEPT !.driver_id = 1, !.status = "in_progress",
                                  !.accepted_at = 0, !.started_at = 0]>>
  /\ drivers = [d \in Drivers |-> Approved(d # 1)]
  /\ calls = [p \in Procs |-> Idle]
  /\ ncalls = 0
  /\ response = NoResponse
  /\ notifications = {}
  /\ events = <<>>
  /\ trip_locations = <<>>
  /\ audit_logs = {}
  /\ winners = [t \in TripIds |-> IF t = 1 THEN <<1>> ELSE <<>>]
  /\ found = NoQuery
  /\ estimate = NoEstimate

\* the handlers that run on such a trip: location reports and status changes
NextT ==
  \/ \E p \in Procs, d \in Drivers, t \in TripIds : LocationCheck(p, d, t)
  \/ \E k \in Procs : LocationStore(k)
  \/ \E p \in Procs, u \in Users, t \in TripIds, s \in Statuses :
       SetStatusCheck(p, u, t, s)
  \/ \E k \in Procs : SetStatusUpdate(k)
  \/ \E k \in Procs : SetStatusRestore(k)
  \/ \E k \in Procs : SetStatusAudit(k)

SpecT == InitT /\ [][NextT]_vars

\* ------------------------------------------- utils/location.js: the fleet
\* INTERVAL '10 minutes' and LIMIT 20 of the query of findNearbyDrivers
FreshnessWindow == 10
CandidateLimit == 20

\* The drivers of the fleet.  The first MaxMoving of them take every
\* combination of the columns the query reads; the others are on duty and
\* parked at known places.
Fleet == 1..MaxFleet
Moving == 1..MaxMoving

\* places lie on one road, at whole kilometres
Places == {0, 5, 6}
ParkedAt(d) == (d % 4) + 1

\* a row of driver_profiles dp JOIN users u ON dp.user_id = u.id
OnDuty(place, updated) ==
  [approval_status |-> "approved", is_available |-> TRUE, status |-> "active",
   current_location |-> place, last_location_update |-> updated]

\* ST_Distance(dp.current_location, point) / 1000 AS distance_km
distance_km(row, point) ==
  IF row.current_location >= point
    THEN row.current_location - point
    ELSE point - row.current_location

\* C18 mutant: the query does not look at is_available
isCandidate_IgnoresAvailability(row) ==
  row.approval_status = "approved" /\ row.status = "active"

\* WHERE dp.is_available = true AND dp.approval_status = 'approved'
\*   AND u.status = 'active'
isCandidate(row) ==
  /\ row.is_available
  /\ row.approval_status = "approved"
  /\ row.status = "active"

\* AND ST_DWithin(dp.current_location, point, radiusKm * 1000)
withinRadius(row, point, radiusKm) ==
  distance_km(row, point) * 1000 <= radiusKm * 1000

\* C17 mutant: the query has no freshness condition
isFresh_NoWindow(row) == TRUE

\* AND dp.last_location_update > NOW() - INTERVAL '10 minutes'
isFresh(row) ==
  /\ row.last_location_update # NULL
  /\ row.last_location_update > CURRENT_TIMESTAMP - FreshnessWindow

\* the drivers whose row passes the WHERE clause
Matching(point, radiusKm) ==
  {d \in DOMAIN drivers :
     /\ isCandidate(drivers[d])
     /\ withinRadius(drivers[d], point, radiusKm)
     /\ isFresh(drivers[d])}

\* ORDER BY distance_km ASC: rows at one distance come in an order the store
\* chooses, here by ascending or by descending user_id
ByUserId(tie) ==
  [i \in 1..Len(drivers) |-> IF tie = "asc" THEN i ELSE Len(drivers) + 1 - i]

\* the rows of S in that order: distance by distance, the nearest first
RECURSIVE ByDistance(_, _, _, _)
ByDistance(D, S, point, tie) ==
  IF D = {}
    THEN <<>>
    ELSE LET nearest == CHOOSE m \in D : \A x \in D : m <= x
             here(d) == d \in S /\ distance_km(drivers[d], point) = nearest
         IN  SelectSeq(ByUserId(tie), here)
               \o ByDistance(D \ {nearest}, S, point, tie)

OrderBy(S, point, tie) ==
  ByDistance({distance_km(drivers[d], point) : d \in S}, S, point, tie)

\* C19 mutant: the query has no LIMIT
Limit_Missing(rows, n) == rows

\* LIMIT n
Limit(rows, n) == SubSeq(rows, 1, IF Len(rows) < n THEN Len(rows) ELSE n)

\* result.rows.map(driver => ({ id: driver.user_id, distance_km, ... }))
findNearbyDrivers(point, radiusKm, tie) ==
  LET rows == Limit(OrderBy(Matching(point, radiusKm), point, tie),
                    CandidateLimit)
  IN  [i \in DOMAIN rows |->
         [id |-> rows[i], distance_km |-> distance_km(drivers[rows[i]], point)]]

\* how long ago a moving driver last reported: inside, on and past the window
Ages == {FreshnessWindow - 1, FreshnessWindow, FreshnessWindow + 1}

\* the fleet at the time CURRENT_TIMESTAMP = FreshnessWindow + 1
InitQ ==
  /\ ncalls = FreshnessWindow + 1
  /\ \E m \in [Moving ->
                [approval_status : {"approved", "pending"},
                 is_available : BOOLEAN,
                 status : {"active", "suspended"},
                 current_location : Places,
                 last_location_update : {ncalls - a : a \in Ages}]] :
       drivers = [d \in Fleet |->
                    IF d \in Moving THEN m[d]
                                    ELSE OnDuty(ParkedAt(d), FreshnessWindow)]
  /\ trips = <<>>
  /\ calls = [p \in Procs |-> Idle]
  /\ response = NoResponse
  /\ notifications = {}
  /\ events = <<>>
  /\ trip_locations = <<>>
  /\ audit_logs = {}
  /\ winners = [t \in TripIds |-> <<>>]
  /\ found = NoQuery
  /\ estimate = NoEstimate

\* const nearbyDrivers = await findNearbyDrivers(latitude, longitude, radiusKm)
FindNearby(point, radiusKm, tie) ==
  /\ found' = [point |-> point, radiusKm |-> radiusKm,
               rows |-> findNearbyDrivers(point, radiusKm, tie)]
  /\ UNCHANGED <<trips, drivers, calls, ncalls, response, notifications,
                 events, trip_locations, audit_logs, winners, estimate>>

NextQ ==
  \E point \in {0, 1}, radiusKm \in {3, 5}, tie \in {"asc", "desc"} :
    FindNearby(point, radiusKm, tie)

SpecQ == InitQ /\ [][NextQ]_vars

\* ---------------------------------------------- requests from anywhere
\* the coordinates a request body may carry: none, 0, a place in Nairobi,
\* a place in Mombasa, and values past either end of the range
Mombasa == Location(-4050, 39670)
Latitudes == {NULL, 0, -90001, Home.latitude, Mombasa.latitude, 90001}
Longitudes == {NULL, 0, -180001, Home.longitude, Mombasa.longitude, 180001}
Locations == {Location(lat, lon) : lat \in Latitudes, lon \in Longitudes}

NextR ==
  \E c \in Clients, pickup \in Locations, dropoff \in Locations,
     nearby \in SUBSET Drivers, stored \in BOOLEAN :
    RequestTrip(c, pickup, dropoff, nearby, stored)

SpecR == Init /\ [][NextR]_vars

\* A statement of the request handler throws after the trip was inserted:
\* the query of findNearbyDrivers (which logs the error and throws it again)
\* or the INSERT INTO audit_logs.  catch (error) -> res.status(500).  The
\* INSERT INTO trips was autocommitted and stays; the drivers found were
\* notified if it is the audit log that failed.  The SELECT of the pricing
\* configuration comes before the INSERT: when it throws, no trip is made.
RequestTripFails(c, pickup, dropoff, nearby, failed) ==
  /\ Len(trips) < MaxTrips
  /\ ~invalidLocations(pickup, dropoff)
  /\ nearby \subseteq Candidates
  /\ IF failed = "pricing_config"
       THEN /\ nearby = {}
            /\ UNCHANGED trips
       ELSE trips' = Append(trips, NewTrip(c, pickup, dropoff))
  /\ IF failed = "audit_logs"
       THEN notifications' = notifyNearby(nearby, Len(trips) + 1)
       ELSE nearby = {} /\ NoNotifications
  /\ response' = Response("request", c, 0, "none", 500)
  /\ NoAudit /\ NoEvents
  /\ UNCHANGED <<drivers, calls, ncalls, winners, found, estimate>>

NextH ==
  \/ NextR
  \/ \E c \in Clients, nearby \in SUBSET Drivers,
        failed \in {"pricing_config", "findNearbyDrivers", "audit_logs"} :
       RequestTripFails(c, Home, Home, nearby, failed)

SpecH == Init /\ [][NextH]_vars

\* ------------------------------------------------- utils/pricing.js
\* Distances are in tenths of a kilometre (calculateDistance rounds to one
\* decimal place) and run up to MaxDistance; the negative ones are what a
\* caller other than the request handler may pass.
MaxDistance == 100
Distances == (0 - MaxDistance)..MaxDistance

\* the row an administrator sets with PATCH /admin/pricing
adminConfig ==
  [base_price |-> 350, price_per_km |-> 55, night_multiplier |-> 150,
   weekend_multiplier |-> 130, minimum_price |-> 450]

Configs == {defaultConfig, adminConfig}

\* C26 mutant: the night starts an hour late
isNight_After22(hour) == hour > 22 \/ hour < 6

\* if (hour >= 22 || hour < 6)
isNight(hour) == hour >= 22 \/ hour < 6

\* if (day === 0 || day === 6), getDay() being 0 on Sunday and 6 on Saturday
isWeekend(day) == day = 0 \/ day = 6

\* Math.max
MathMax(a, b) == IF a >= b THEN a ELSE b

\* Math.round of the fraction num / den: the nearest integer, a half goes up
MathRound(num, den) == (2 * num + den) \div (2 * den)

\* calculatePrice(distanceKm, requestTime, config), in exact arithmetic: the
\* price is carried in 1/100000 KES (tenths of a kilometre times hundredths
\* of a multiplier, twice), a multiplier that is not applied counting as 1
calculatePrice(distanceKm, hour, day, config) ==
  LET distanceCost == config.base_price * 10 + distanceKm * config.price_per_km
      atNight == distanceCost *
                   (IF isNight(hour) THEN config.night_multiplier ELSE 100)
      atWeekend == atNight *
                   (IF isWeekend(day) THEN config.weekend_multiplier ELSE 100)
      price == MathMax(atWeekend, config.minimum_price * 100000)
  IN  MathRound(price, 1000000) * 10

\* the arguments of a call: any distance, hour of the day, day of the week
\* and configuration
InitP ==
  /\ estimate \in [distanceKm : Distances, hour : 0..23, day : 0..6,
                    config : Configs, price : {NULL}]
  /\ trips = <<>>
  /\ drivers = [d \in Drivers |-> Approved(TRUE)]
  /\ calls = [p \in Procs |-> Idle]
  /\ ncalls = 0
  /\ response = NoResponse
  /\ notifications = {}
  /\ events = <<>>
  /\ trip_locations = <<>>
  /\ audit_logs = {}
  /\ winners = [t \in TripIds |-> <<>>]
  /\ found = NoQuery

\* const estimatedPrice = calculatePrice(distance, new Date(), config)
CalculatePrice ==
  /\ estimate.price = NULL
  /\ estimate' =
       [estimate EXCEPT !.price = calculatePrice(estimate.distanceKm,
                                     estimate.hour, estimate.day, estimate.config)]
  /\ UNCHANGED <<trips, drivers, calls, ncalls, response, notifications,
                 events, trip_locations, audit_logs, winners, found>>

NextP == CalculatePrice

SpecP == InitP /\ [][NextP]_vars

\* ------------------------------------------------ drivers and two offers
\* The state in which client 0 has requested one trip more than MaxTrips and
\* every request is over.  The first trip is still pending, or driver 1
\* accepted and completed it earlier (and is available again); the others
\* are pending.  The last driver is approved or still waits for approval.
Offered == 1..(MaxTrips + 1)

\* an id that is in no row of driver_profiles
Stranger == MaxDrivers + 1

\* the row of a trip that driver d accepted, drove and completed
Finished(row, d) ==
  [row EXCEPT !.driver_id = d, !.status = "completed", !.accepted_at = 0,
              !.started_at = 0, !.completed_at = 0]

InitA ==
  /\ \E first \in {"pending", "completed"} :
       /\ trips = [t \in Offered |->
                     IF t = 1 /\ first = "completed"
                       THEN Finished(NewTrip(0, Home, Home), 1)
                       ELSE NewTrip(0, Home, Home)]
       /\ winners = [t \in Offered |->
                       IF t = 1 /\ first = "completed" THEN <<1>> ELSE <<>>]
  /\ \E approval \in {"approved", "pending"} :
       drivers = [d \in Drivers |->
                    IF d = MaxDrivers
                      THEN [Approved(TRUE) EXCEPT !.approval_status = approval]
                      ELSE Approved(TRUE)]
  /\ calls = [p \in Procs |-> Idle]
  /\ ncalls = 0
  /\ response = NoResponse
  /\ notifications = {}
  /\ events = <<>>
  /\ trip_locations = <<>>
  /\ audit_logs = {}
  /\ found = NoQuery
  /\ estimate = NoEstimate

\* the accept calls of any driver, known or not, on any of the trips
NextA ==
  \/ \E p \in Procs, d \in Drivers \cup {Stranger}, t \in Offered :
       AcceptCheck(p, d, t)
  \/ \E k \in Procs : AcceptUpdate(k)
  \/ \E k \in Procs : AcceptMarkUnavailable(k)
  \/ \E k \in Procs : AcceptCommit(k)
  \/ \E k \in Procs : AcceptAudit(k)

SpecA == InitA /\ [][NextA]_vars

\* the same, and the setStatus calls that end a trip
NextB ==
  \/ NextA
  \/ \E p \in Procs, u \in Users, t \in Offered :
       \E s \in {x \in validStatuses : releasesDriver(x)} :
         SetStatusCheck(p, u, t, s)
  \/ \E k \in Procs : SetStatusUpdate(k)
  \/ \E k \in Procs : SetStatusRestore(k)
  \/ \E k \in Procs : SetStatusAudit(k)

SpecB == InitA /\ [][NextB]_vars

\* ================================================================ claims
ActiveStatuses == {"accepted", "driver_arriving", "in_progress", "completed"}

\* the adjacency of the lifecycle that setStatus is specified to enforce
Edge(from, to) ==
  \/ from = "pending" /\ to = "accepted"
  \/ from = "accepted" /\ to = "driver_arriving"
  \/ from = "driver_arriving" /\ to = "in_progress"
  \/ from = "in_progress" /\ to = "completed"
  \/ from \in {"pending", "accepted", "driver_arriving"} /\ includesCancelled(to)

\* the drivers that accept ever bound to trip t
EverBound(t) == {winners[t][i] : i \in DOMAIN winners[t]}

\* worker k takes this step
Steps(k) == calls'[k] # calls[k]

\* this step receives the request (op, u, t, s)
NewRequest(op, u, t, s) ==
  /\ ncalls' = ncalls + 1
  /\ \/ response' # NoResponse /\ response'.op = op /\ response'.user = u
        /\ response'.trip = t /\ response'.status = s
     \/ \E p \in Procs :
          /\ Steps(p)
          /\ calls'[p].op = op /\ calls'[p].user = u
          /\ calls'[p].trip = t /\ calls'[p].status = s

\* C1: of the accept calls that approved, available drivers run concurrently
\* on one pending trip, exactly one succeeds and every other is answered 409:
\* at most one accept ever commits on a trip; an accept is answered 403 only
\* when its driver fails the driver check, 409 only when the trip is no
\* longer pending, 200 only to the committed winner; and when an accept
\* commits, the trip is accepted and bound to that caller; while the trip is
\* accepted its driver is the one winner.
C1_ExactlyOneAcceptWins ==
  \A t \in TripIds :
    /\ Len(winners[t]) <= 1
    /\ Exists(t) /\ trips[t].status = "pending" => winners[t] = <<>>
    /\ Exists(t) /\ trips[t].status = "accepted" =>
         winners[t] = <<trips[t].driver_id>>
    /\ response.op = "accept" /\ response.trip = t =>
         /\ response.code \in {200, 403, 409}
         /\ response.code = 403 => ~driverCheck(response.user)
         /\ response.code = 409 /\ Exists(t) => trips[t].status # "pending"
         /\ response.code = 200 =>
              /\ winners[t] = <<response.user>>
              /\ trips[t].driver_id = response.user
    /\ \A n \in notifications :
         n.event = "trip_accepted" /\ n.trip_id = t =>
           /\ trips[t].status = "accepted"
           /\ trips[t].driver_id = n.driver_id
           /\ winners[t] = <<n.driver_id>>

\* C1 witness: a driver is answered 409 while the accept of another driver,
\* which committed on the same trip, is still running
C1_Witness ==
  /\ response.op = "accept" /\ response.code = 409
  /\ \E k \in Procs :
       /\ At(k, "accept", "audit")
       /\ calls[k].trip = response.trip
       /\ calls[k].user # response.user
       /\ trips[response.trip].status = "accepted"
       /\ trips[response.trip].driver_id = calls[k].user

\* C2: for every trip, the driver reference is non-null if and only if the
\* status is accepted, driver_arriving, in_progress or completed
C2_DriverIffActive ==
  \A t \in DOMAIN trips :
    trips[t].driver_id # NULL <=> trips[t].status \in ActiveStatuses

\* C3: a setStatus call of a participant whose (current status, new status)
\* is not an edge of the lifecycle is rejected and leaves the trip and every
\* driver's availability unchanged
C3_InvalidTransitionRejected ==
  [][\A k \in Procs :
       /\ At(k, "setStatus", "update")
       /\ Steps(k)
       /\ ~Edge(trips[calls[k].trip].status, calls[k].status)
       => /\ calls'[k] = Idle
          /\ response'.code \notin {0, 200}
          /\ trips' = trips
          /\ drivers' = drivers]_vars

\* C4: a trip that is in_progress never becomes cancelled: the only status
\* that follows in_progress is completed
C4_NoCancelInProgress ==
  [][\A t \in DOMAIN trips :
       trips[t].status = "in_progress" =>
         trips'[t].status \in {"in_progress", "completed"}]_vars

\* C5: once the status of a trip is completed, cancelled_by_client or
\* cancelled_by_driver, no call changes it again
C5_TerminalIsFinal ==
  [][\A t \in DOMAIN trips :
       releasesDriver(trips[t].status) =>
         trips'[t].status = trips[t].status]_vars

\* C6: over the whole history of a trip at most one driver is ever stored in
\* its driver reference: accept binds at most one driver to a trip, and the
\* driver reference holds no driver other than that one
C6_AtMostOneDriverEver ==
  \A t \in DOMAIN trips :
    /\ Cardinality(EverBound(t)) <= 1
    /\ trips[t].driver_id # NULL => trips[t].driver_id \in EverBound(t)

\* C6 witness: after a further status change of a bound trip, another driver
\* tried to accept it and the first driver is still the one bound
C6_Witness ==
  /\ response.op = "accept" /\ response.code = 409
  /\ Exists(response.trip)
  /\ trips[response.trip].driver_id \notin {NULL, response.user}
  /\ trips[response.trip].status # "accepted"

\* C7 as claimed: every accept call on a trip that is not pending is answered
\* 409 and changes neither the trip nor the availability of a driver
C7_StaleOfferForAnyCaller ==
  [][\A d \in Drivers, t \in DOMAIN trips :
       /\ NewRequest("accept", d, t, "accepted")
       /\ trips[t].status # "pending"
       => /\ response' \in {NoResponse, Response("accept", d, t, "accepted", 409)}
          /\ trips' = trips
          /\ drivers' = drivers]_vars

\* C7 amended: an accept call of an approved, available driver (one that
\* passed the driver check) on a trip that is not pending is answered 409 by
\* its UPDATE, and that changes neither the trip nor any driver's availability
C7_StaleOfferForEligibleDriver ==
  [][\A k \in Procs :
       /\ At(k, "accept", "update")
       /\ Steps(k)
       /\ Exists(calls[k].trip)
       /\ trips[calls[k].trip].status # "pending"
       => /\ calls'[k] = Idle
          /\ response' =
               Response("accept", calls[k].user, calls[k].trip, "accepted", 409)
          /\ trips' = trips
          /\ drivers' = drivers
          /\ winners' = winners]_vars

\* C7 witness: an accept on a cancelled trip was answered 409
C7_Witness ==
  /\ response.op = "accept" /\ response.code = 409
  /\ Exists(response.trip)
  /\ includesCancelled(trips[response.trip].status)

\* C8: when a setStatus call that moves a trip to completed or cancelled has
\* done its availability restore, the driver bound to the trip is available
C8_BoundDriverReleased ==
  [][\A k \in Procs :
       /\ At(k, "setStatus", "restore")
       /\ Steps(k)
       /\ trips'[calls[k].trip].driver_id # NULL
       => drivers'[trips'[calls[k].trip].driver_id].is_available]_vars

\* C9: a successful accept makes its three changes visible together: in the
\* step in which a trip becomes visible as accepted with driver d, the trip
\* was pending and unbound before, and d is unavailable after
C9_AcceptVisibleTogether ==
  [][\A t \in DOMAIN trips, d \in Drivers :
       /\ trips'[t].status = "accepted" /\ trips'[t].driver_id = d
       /\ ~(trips[t].status = "accepted" /\ trips[t].driver_id = d)
       => /\ trips[t].status = "pending"
          /\ trips[t].driver_id = NULL
          /\ ~drivers'[d].is_available]_vars

\* C9 witness: the state a commit of accept leaves
C9_Witness ==
  \E n \in notifications :
    /\ n.event = "trip_accepted"
    /\ trips[n.trip_id].status = "accepted"
    /\ trips[n.trip_id].driver_id = n.driver_id
    /\ ~drivers[n.driver_id].is_available

\* C10 as claimed: every setStatus call of a caller who is neither the client
\* nor the bound driver of the trip is answered 403, changes neither the trip
\* nor a driver's availability and emits no notification
C10_UnauthorizedForAnyStatus ==
  [][\A u \in Users, t \in DOMAIN trips, s \in Statuses :
       /\ NewRequest("setStatus", u, t, s)
       /\ trips[t].client_id # u /\ trips[t].driver_id # u
       => /\ response' = Response("setStatus", u, t, s, 403)
          /\ trips' = trips
          /\ drivers' = drivers
          /\ notifications' = {}]_vars

\* C10 amended: a setStatus call that asks for one of the five statuses
\* setStatus accepts (driver_arriving, in_progress, completed,
\* cancelled_by_client, cancelled_by_driver), made by a caller who is neither
\* the client nor the bound driver of the trip, is answered 403, changes
\* neither the trip nor a driver's availability and emits no notification
C10_UnauthorizedForSettableStatus ==
  [][\A u \in Users, t \in DOMAIN trips, s \in validStatuses :
       /\ NewRequest("setStatus", u, t, s)
       /\ trips[t].client_id # u /\ trips[t].driver_id # u
       => /\ response' = Response("setStatus", u, t, s, 403)
          /\ calls' = calls
          /\ trips' = trips
          /\ drivers' = drivers
          /\ notifications' = {}]_vars

\* C10 witness: a driver other than the bound one was answered 403
C10_Witness ==
  /\ response.op = "setStatus" /\ response.code = 403
  /\ response.status \in validStatuses
  /\ Exists(response.trip)
  /\ trips[response.trip].driver_id \notin {NULL, response.user}

\* C11: setStatus is all-or-nothing: a setStatus call that reports failure
\* has written nothing, so it leaves no trip whose status it changed (to
\* completed or cancelled, with the bound driver still unavailable, or to
\* anything else): the statement that failed is its first write
C11_SetStatusAllOrNothing ==
  [][\A k \in Procs :
       /\ calls[k].op = "setStatus"
       /\ Steps(k)
       /\ response'.code = 500
       => calls[k].pc = "update"]_vars

\* C12: every trip whose status is completed has a final price
C12_CompletedHasFinalPrice ==
  \A t \in DOMAIN trips :
    trips[t].status = "completed" => trips[t].final_price # NULL

\* C13: triggerSOS on an existing trip is acknowledged whatever the status
\* of the trip: the call is taken up and raises the flag of the trip as it is
\* received; it ends with success (200), one sos_alert event for that trip
\* and one sos_triggered record; and a raised flag is never lowered
C13_SOSAcknowledgedInAnyStatus ==
  [][/\ \A u \in Users, t \in DOMAIN trips :
          NewRequest("sos", u, t, "none") =>
            /\ trips'[t].sos_triggered
            /\ \E p \in Procs : Steps(p) /\ At(p, "idle", "idle")
                                /\ calls'[p].pc = "alert"
     /\ \A k \in Procs :
          At(k, "sos", "alert") /\ Steps(k) =>
            /\ response' =
                 Response("sos", calls[k].user, calls[k].trip, "none", 200)
            /\ Len(events') = 1
            /\ events'[1].event = "sos_alert"
            /\ events'[1].trip_id = calls[k].trip
            /\ audit_logs' =
                 {[user_id |-> calls[k].user, action |-> "sos_triggered",
                   entity_id |-> calls[k].trip]}
     /\ \A t \in DOMAIN trips :
          trips[t].sos_triggered => trips'[t].sos_triggered]_vars

\* C13 witness: an SOS on a completed trip was acknowledged, the flag is set
C13_Witness ==
  /\ response.op = "sos" /\ response.code = 200
  /\ Exists(response.trip)
  /\ trips[response.trip].status = "completed"
  /\ trips[response.trip].sos_triggered
  /\ Len(events) = 1 /\ events[1].event = "sos_alert"

\* the columns of a trip that the lifecycle owns
Lifecycle(row) ==
  <<row.status, row.driver_id, row.accepted_at, row.started_at,
    row.completed_at, row.cancelled_at, row.final_price>>

\* C14: a step of a triggerSOS call leaves the status, the driver, the
\* lifecycle timestamps of every trip and the availability of every driver
\* unchanged, and leaves every accept and setStatus call in flight as it was;
\* and a step of accept or setStatus leaves the emergency flag as it was, so
\* neither call loses what the other wrote
C14_SOSDecoupled ==
  [][\A k \in Procs :
       /\ Steps(k) /\ (calls[k].op = "sos" \/ calls'[k].op = "sos") =>
            /\ DOMAIN trips' = DOMAIN trips
            /\ \A t \in DOMAIN trips : Lifecycle(trips'[t]) = Lifecycle(trips[t])
            /\ drivers' = drivers
            /\ winners' = winners
            /\ \A j \in Procs \ {k} : calls'[j] = calls[j]
       /\ Steps(k) /\ calls[k].op \in {"accept", "setStatus"} =>
            \A t \in DOMAIN trips :
              /\ trips'[t].sos_triggered = trips[t].sos_triggered
              /\ trips'[t].sos_triggered_at = trips[t].sos_triggered_at]_vars

\* C14 witness: an SOS was raised on a trip while a driver was accepting it;
\* the accept committed and the flag is still set
C14_Witness ==
  \E k, j \in Procs :
    /\ At(k, "sos", "alert")
    /\ At(j, "accept", "audit")
    /\ calls[j].trip = calls[k].trip
    /\ Exists(calls[k].trip)
    /\ trips[calls[k].trip].status = "accepted"
    /\ trips[calls[k].trip].sos_triggered

\* C15: a location report is accepted only if, as it is received, the trip
\* is in_progress and the reporter is its bound driver; every other report is
\* answered 403 and goes no further; and a location sample is stored, and a
\* driver_location_update published, only by a report that was accepted
C15_ReportOnlyByDriverInProgress ==
  [][/\ \A d \in Drivers, t \in TripIds :
          NewRequest("location", d, t, "none") =>
            /\ trip_locations' = <<>> /\ events' = <<>>
            /\ IF /\ t \in DOMAIN trips
                  /\ trips[t].status = "in_progress"
                  /\ trips[t].driver_id = d
                 THEN \E p \in Procs :
                        Steps(p) /\ calls'[p].pc = "store"
                        /\ response' = NoResponse
                 ELSE /\ response' = Response("location", d, t, "none", 403)
                      /\ calls' = calls
     /\ \/ trip_locations' # <<>>
        \/ \E i \in DOMAIN events' : events'[i].event = "driver_location_update"
        => \E k \in Procs :
            /\ At(k, "location", "store") /\ Steps(k)
            /\ response' =
                 Response("location", calls[k].user, calls[k].trip, "none", 200)
            /\ Len(trip_locations') = 1
            /\ trip_locations'[1].trip_id = calls[k].trip
            /\ Len(events') = 1
            /\ events'[1].room = calls[k].trip]_vars

\* C15 witness: the bound driver is answered 403 once the trip is completed,
\* while a report of the same driver, accepted before, is still in flight
C15_Witness ==
  /\ response.op = "location" /\ response.code = 403
  /\ Exists(response.trip)
  /\ trips[response.trip].driver_id = response.user
  /\ trips[response.trip].status = "completed"
  /\ \E k \in Procs : At(k, "location", "store") /\ calls[k].user = response.user

\* C16: the samples stored and the events published for a trip follow the
\* order in which the accepted reports were received: a report is stored and
\* published, once each, while no report of the same trip that was received
\* before it is still waiting to be stored
C16_SamplesInOrderReceived ==
  [][\A k \in Procs :
       At(k, "location", "store") /\ Steps(k) =>
         /\ Len(trip_locations') = 1
         /\ trip_locations'[1].location = calls[k].report
         /\ Len(events') = 1
         /\ events'[1].location = calls[k].report
         /\ \A j \in Procs \ {k} :
              At(j, "location", "store") /\ calls[j].trip = calls[k].trip =>
                calls[j].report > calls[k].report]_vars

\* the drivers the last query returned
Returned == {found.rows[i].id : i \in DOMAIN found.rows}

\* C17: the candidate query never returns a driver whose last location
\* update is older than the freshness window of 10 minutes at query time
C17_NoStaleCandidate ==
  \A d \in Returned :
    CURRENT_TIMESTAMP - drivers[d].last_location_update <= FreshnessWindow

\* C17 witness: the driver nearest to the query point, on duty and within
\* the radius, last reported more than 10 minutes ago and was not returned,
\* while other drivers were
C17_Witness ==
  /\ found.rows # <<>>
  /\ \E d \in DOMAIN drivers \ Returned :
       /\ CURRENT_TIMESTAMP - drivers[d].last_location_update > FreshnessWindow
       /\ drivers[d].is_available
       /\ drivers[d].approval_status = "approved"
       /\ drivers[d].status = "active"
       /\ \A e \in DOMAIN drivers \ {d} :
            distance_km(drivers[d], found.point) <
              distance_km(drivers[e], found.point)

\* C18: every driver the candidate query returned is available, approved
\* and within the requested radius of the query point
C18_CandidatesAvailableApprovedNear ==
  \A d \in Returned :
    /\ drivers[d].is_available
    /\ drivers[d].approval_status = "approved"
    /\ distance_km(drivers[d], found.point) <= found.radiusKm

\* C18 witness: a driver at the query point, approved and fresh, is
\* unavailable, and a driver on duty is outside the radius; neither was
\* returned, while other drivers were
C18_Witness ==
  /\ found.rows # <<>>
  /\ \E d, e \in DOMAIN drivers \ Returned :
       /\ ~drivers[d].is_available
       /\ drivers[d].approval_status = "approved"
       /\ distance_km(drivers[d], found.point) = 0
       /\ isFresh(drivers[d])
       /\ drivers[e].is_available
       /\ drivers[e].approval_status = "approved"
       /\ distance_km(drivers[e], found.point) > found.radiusKm
       /\ isFresh(drivers[e])

\* C19: the candidate query returns at most 20 drivers, no driver twice, in
\* ascending order of distance, and no driver it returned is farther from the
\* query point than a driver that matched the query and was left out
C19_NearestTwentyAscending ==
  found # NoQuery =>
  /\ Len(found.rows) <= CandidateLimit
  /\ Cardinality(Returned) = Len(found.rows)
  /\ Returned \subseteq Matching(found.point, found.radiusKm)
  /\ \A i, j \in DOMAIN found.rows :
       i < j => found.rows[i].distance_km <= found.rows[j].distance_km
  /\ \A i \in DOMAIN found.rows :
       found.rows[i].distance_km =
         distance_km(drivers[found.rows[i].id], found.point)
  /\ \A d \in Matching(found.point, found.radiusKm) \ Returned :
       /\ Len(found.rows) = CandidateLimit
       /\ \A i \in DOMAIN found.rows :
            found.rows[i].distance_km <= distance_km(drivers[d], found.point)

\* C19 witness: more than 20 drivers matched; the 20 returned are at
\* different distances, and the matching driver that was left out, on the
\* edge of the radius, is farther away than each of them
C19_Witness ==
  /\ Len(found.rows) = CandidateLimit
  /\ Cardinality(Matching(found.point, found.radiusKm)) > CandidateLimit
  /\ found.rows[1].distance_km < found.rows[CandidateLimit].distance_km
  /\ \E d \in Matching(found.point, found.radiusKm) \ Returned :
       /\ distance_km(drivers[d], found.point) = found.radiusKm
       /\ distance_km(drivers[d], found.point) >
            found.rows[CandidateLimit].distance_km

\* a coordinate the body carries lies outside [-limit, limit]
outside(v, limit) == v # NULL /\ (v < 0 - limit \/ v > limit)

\* C20: requestTrip rejects, and creates no trip for, every request in which
\* a pickup or dropoff latitude is outside [-90, 90] or a longitude is outside
\* [-180, 180].  The claim names the validation error (400); the formula
\* asks for less, any answer but success, so that the error the store may
\* raise for such a point does not count against the handler.
C20_OutOfRangeRejected ==
  [][\A c \in Clients, pickup \in Locations, dropoff \in Locations :
       /\ \E nearby \in SUBSET Drivers, stored \in BOOLEAN :
            RequestTrip(c, pickup, dropoff, nearby, stored)
       /\ \/ outside(pickup.latitude, 90000)
          \/ outside(dropoff.latitude, 90000)
          \/ outside(pickup.longitude, 180000)
          \/ outside(dropoff.longitude, 180000)
       => /\ response'.code # 200
          /\ trips' = trips]_vars

\* the body carries two points on the globe
wellFormed(pickup, dropoff) ==
  /\ validateCoordinates(pickup.latitude, pickup.longitude)
  /\ validateCoordinates(dropoff.latitude, dropoff.longitude)

\* C21: requestTrip rejects, creates no trip for and notifies no driver of
\* every request whose pickup lies outside the service area (the bounds of
\* Nairobi).  The claim names the out-of-service-area outcome; the formula
\* asks for less, any answer but success, and looks only at requests whose
\* points are on the globe.
C21_OutsideServiceAreaRejected ==
  [][\A c \in Clients, pickup \in Locations, dropoff \in Locations :
       /\ \E nearby \in SUBSET Drivers, stored \in BOOLEAN :
            RequestTrip(c, pickup, dropoff, nearby, stored)
       /\ wellFormed(pickup, dropoff)
       /\ ~isWithinServiceArea(pickup.latitude, pickup.longitude)
       => /\ response'.code # 200
          /\ trips' = trips
          /\ notifications' = {}]_vars

\* C22: requestTrip with a well-formed body always succeeds and creates
\* exactly one pending trip with a null driver, for every pickup and dropoff
\* with latitude in [-90, 90] and longitude in [-180, 180], a latitude or
\* longitude of 0 included.
C22_WellFormedRequestSucceeds ==
  [][\A c \in Clients, pickup \in Locations, dropoff \in Locations :
       /\ \E nearby \in SUBSET Drivers, stored \in BOOLEAN :
            RequestTrip(c, pickup, dropoff, nearby, stored)
       /\ wellFormed(pickup, dropoff)
       => /\ response'.code = 200
          /\ trips' = Append(trips, NewTrip(c, pickup, dropoff))]_vars

\* C23: a successful requestTrip emits exactly one new_trip_request
\* notification for each candidate driver the query returned, addressed to
\* the id of that candidate and carrying the id of the new trip; there are
\* as many notifications as candidates.
C23_EachCandidateNotified ==
  [][response'.op = "request" /\ response'.code = 200
       => \E nearby \in SUBSET Candidates :
            /\ Cardinality(notifications') = Cardinality(nearby)
            /\ \A d \in nearby :
                 \E n \in notifications' :
                   /\ n.to = d
                   /\ n.event = "new_trip_request"
                   /\ n.trip_id = response'.trip]_vars

\* the price was calculated
Priced == estimate.price # NULL

\* the exact price before rounding, in 1/100000 KES, as the claim states it:
\* max(minimumFare, (base + km * perKm) * N * W), N the night multiplier in
\* the hours 22, 23 and 0 to 5, W the weekend multiplier on Saturday and Sunday
Unrounded ==
  LET N == IF estimate.hour \in {22, 23, 0, 1, 2, 3, 4, 5}
             THEN estimate.config.night_multiplier ELSE 100
      W == IF estimate.day \in {0, 6}
             THEN estimate.config.weekend_multiplier ELSE 100
      fare == (estimate.config.base_price * 10
                 + estimate.distanceKm * estimate.config.price_per_km) * N * W
      minimumFare == estimate.config.minimum_price * 100000
  IN  IF fare >= minimumFare THEN fare ELSE minimumFare

\* this call was made with (distance in tenths of a km, hour, day) and the
\* default configuration
Called(distanceKm, hour, day) ==
  /\ estimate.distanceKm = distanceKm
  /\ estimate.hour = hour
  /\ estimate.day = day
  /\ estimate.config = defaultConfig

\* C24: with the default configuration, the estimate for 5 km requested on a
\* Tuesday at 23:00 is 825.
C24_FiveKmTuesdayNight ==
  Priced /\ Called(50, 23, 2) => estimate.price = 825

\* C25: with the default configuration, the estimate for 10 km requested on a
\* Sunday at 01:00 is 1980.
C25_TenKmSundayNight ==
  Priced /\ Called(100, 1, 0) => estimate.price = 1980

C27_NegativeDistanceRejected ==
  estimate.distanceKm < 0 => ~Priced

\* C28: the status changes of one trip are totally ordered and none is
\* lost: every status write, by accept or by setStatus, is applied to exactly
\* the status value the guard of its call read, so that two concurrent
\* setStatus calls (or a setStatus and an accept) never both succeed on the
\* same prior status.
C28_StatusWrittenOverStatusRead ==
  [][\A k \in Procs :
       /\ At(k, "accept", "commit") /\ Steps(k)
            => trips[calls[k].trip].status = "pending"
       /\ At(k, "setStatus", "update") /\ Steps(k)
            => trips[calls[k].trip].status = calls[k].current_status]_vars

\* C29: every accepted location report of an active trip also updates the
\* presence of the reporting driver: after the report the current location
\* of the driver is the reported point and the last update is the time of
\* the report.
C29_ReportUpdatesPresence ==
  [][\A k \in Procs :
       At(k, "location", "store") /\ Steps(k) /\ response'.code = 200
         => /\ drivers'[calls[k].user].current_location = calls[k].report
            /\ drivers'[calls[k].user].last_location_update = CURRENT_TIMESTAMP
    ]_vars

\* C30: a pending trip that no driver accepts within the configured window
\* eventually leaves pending for an expired (cancelled) outcome, without any
\* call of a client or a driver: no trip stays pending for ever.
C30_PendingExpires ==
  \A t \in TripIds : StillPending(t) ~> ~StillPending(t)

\* the trips that are under way with driver d
ActiveTripsOf(d) ==
  {t \in DOMAIN trips :
     /\ trips[t].driver_id = d
     /\ trips[t].status \in {"accepted", "driver_arriving", "in_progress"}}

\* C31: a driver is bound to at most one trip in an active status (accepted,
\* driver_arriving, in_progress) at any time, also when the accept calls of
\* one driver on two different pending trips run concurrently.
C31_OneActiveTripPerDriver ==
  \A d \in Drivers : Cardinality(ActiveTripsOf(d)) <= 1

\* C32: a driver who is bound to a trip in status accepted, driver_arriving
\* or in_progress has availability false, after any sequence of accept and
\* setStatus calls on any trips, repeated setStatus calls on a trip the
\* driver finished earlier included.
C32_ActiveDriverUnavailable ==
  \A d \in Drivers : ActiveTripsOf(d) # {} => ~drivers[d].is_available

\* the driver is unknown, not approved, or not available
Ineligible(d) ==
  \/ d \notin DOMAIN drivers
  \/ drivers[d].approval_status # "approved"
  \/ ~drivers[d].is_available

\* C38: an accept call by a driver who is unknown, not approved or not
\* available is rejected (403) before the trip is touched: the trips and the
\* drivers are as they were, no handler is left running for the call, and no
\* trip_accepted notification goes out, so that a trip that was pending is
\* pending still for the accept of an eligible driver.
C38_IneligibleAcceptTouchesNothing ==
  [][\A d \in Drivers \cup {Stranger}, t \in Offered :
       NewRequest("accept", d, t, "accepted") /\ Ineligible(d)
         => /\ response'.code = 403
            /\ trips' = trips
            /\ drivers' = drivers
            /\ calls' = calls
            /\ notifications' = {}]_vars

\* the accept of the driver who waits for approval was rejected, and the
\* trip is pending with no driver
C38_Witness ==
  /\ response.op = "accept" /\ response.code = 403
  /\ response.user \in DOMAIN drivers
  /\ drivers[response.user].approval_status = "pending"
  /\ drivers[response.user].is_available
  /\ StillPending(response.trip)
  /\ trips[response.trip].driver_id = NULL

\* the transaction of the accept call of worker k has committed
Committed(k) == calls[k].op = "accept" /\ calls[k].pc = "audit"

\* C33: an accept call that reports failure to its caller (403, 409 or 500)
\* has bound no one: the call has no committed binding of its caller to the
\* trip, and the step that fails leaves trips and driver availability as
\* they were, whichever statement it is that fails, the client lookup and
\* the audit-log write included.
C33_FailedAcceptBindsNothing ==
  [][/\ response'.op = "accept" /\ response'.code \in {403, 409, 500}
        => trips' = trips /\ drivers' = drivers
     /\ \A k \in Procs :
          /\ calls[k].op = "accept" /\ Steps(k)
          /\ response'.code \in {403, 409, 500}
          => ~Committed(k)]_vars

\* C34: a requestTrip that reports failure to its caller has created no
\* trip, also when it is the candidate query, a driver notification or the
\* audit-log write, after the trip row was inserted, that fails.
C34_FailedRequestCreatesNothing ==
  [][response'.op = "request" /\ response'.code \in {400, 500}
       => trips' = trips]_vars

\* C35: the cancellation status names the party that cancelled: a trip
\* enters cancelled_by_client only through a setStatus call of its client,
\* and cancelled_by_driver only through a setStatus call of its bound driver.
C35_CancelledByNamesCaller ==
  [][\A t \in DOMAIN trips :
       /\ t \in DOMAIN trips'
       /\ trips'[t].status # trips[t].status
       /\ includesCancelled(trips'[t].status)
       => \E k \in Procs :
            /\ At(k, "setStatus", "update") /\ Steps(k)
            /\ calls[k].trip = t
            /\ trips'[t].status = "cancelled_by_client"
                 => calls[k].user = trips[t].client_id
            /\ trips'[t].status = "cancelled_by_driver"
                 => calls[k].user = trips[t].driver_id]_vars

\* the trip_accepted notifications a step emits
TripAccepted(ns) == {n \in ns : n.event = "trip_accepted"}

\* C36: for each trip the trip_accepted notification to the client of the
\* trip is emitted at most once, only after an accept has been committed,
\* and it names the driver that is bound to the trip; an accept that loses
\* the race or is rejected emits no trip_accepted notification.
C36_TripAcceptedOnceByWinner ==
  [][/\ Cardinality(TripAccepted(notifications')) <= 1
     /\ \A n \in TripAccepted(notifications') :
          /\ \E k \in Procs :
               At(k, "accept", "commit") /\ Steps(k) /\ calls[k].trip = n.trip_id
          /\ winners[n.trip_id] = <<>>
          /\ trips'[n.trip_id].status = "accepted"
          /\ trips'[n.trip_id].driver_id = n.driver_id
          /\ n.to = trips'[n.trip_id].client_id
     /\ response'.op = "accept" /\ response'.code \in {403, 409}
          => TripAccepted(notifications') = {}]_vars

\* the client is told of the winner while the accept of another driver on
\* the same trip waits for its UPDATE, which will find the trip taken
C36_Witness ==
  \E n \in TripAccepted(notifications), k \in Procs :
    /\ At(k, "accept", "update")
    /\ calls[k].trip = n.trip_id
    /\ calls[k].user # n.driver_id
    /\ trips[n.trip_id].driver_id = n.driver_id

\* C37: triggerSOS with the id of a trip that does not exist does not
\* succeed: the answer is not found, no sos_alert is emitted to the operator
\* channel and no emergency event is recorded.
C37_SOSOnMissingTripRejected ==
  [][\A k \in Procs :
       At(k, "sos", "alert") /\ Steps(k) /\ ~Exists(calls[k].trip)
         => /\ response'.code = 404
            /\ events' = <<>>
            /\ audit_logs' = {}]_vars

\* the trip is over
Ended(t) == releasesDriver(trips[t].status)

\* C39: every stored location sample and every published
\* driver_location_update event of a trip is written while the status of the
\* trip is in_progress, also when a location report and a setStatus call on
\* the trip run concurrently.  The formula asks for less: that none is
\* written once the trip is completed or cancelled.
C39_NoSampleAfterTripEnded ==
  [][/\ \A i \in DOMAIN trip_locations' : ~Ended(trip_locations'[i].trip_id)
     /\ \A i \in DOMAIN events' :
          events'[i].event = "driver_location_update"
            => ~Ended(events'[i].room)]_vars

====
